---- MODULE Spec2Model ----
(***************************************************************************)
(* DomainContentBackupManager: rule-driven backup scheduler, archive       *)
(* scanner, retention, loader and persist guard.                           *)
(*                                                                         *)
(* File names are sequences of one-character strings, so that the glob     *)
(* filters, the anchored regular expression, the by-name sort and the      *)
(* timestamp formatting/parsing are computed character by character.       *)
(* The time zone of the model is UTC (local time = epoch time).            *)
(***************************************************************************)
EXTENDS Integers, Sequences, FiniteSets, TLC

(***************************************************************************)
(* Characters and strings                                                  *)
(***************************************************************************)

\* The characters of the model, in code-point order.
CharOrder ==
    << " ", "*", "-", ".",
       "0", "1", "2", "3", "4", "5", "6", "7", "8", "9", "?",
       "A", "B", "D", "_",
       "a", "b", "c", "d", "g", "i", "k", "l", "n", "o", "p", "r", "u", "x", "y", "z" >>

Code(c) == CHOOSE i \in 1..Len(CharOrder) : CharOrder[i] = c

Digits == << "0", "1", "2", "3", "4", "5", "6", "7", "8", "9" >>

IsDigit(c) == \E i \in 1..10 : Digits[i] = c

DigitVal(c) == (CHOOSE i \in 1..10 : Digits[i] = c) - 1

\* QChar::toLower on the characters of the model.
ToLowerChar(c) ==
    CASE c = "A" -> "a"
      [] c = "B" -> "b"
      [] c = "D" -> "d"
      [] OTHER -> c

\* QString::toLower
ToLower(s) == [i \in 1..Len(s) |-> ToLowerChar(s[i])]

\* QString::replace(" ", "_")
ReplaceSpaces(s) == [i \in 1..Len(s) |-> IF s[i] = " " THEN "_" ELSE s[i]]

\* QString::compare (code-unit order): TRUE iff a sorts strictly before b.
RECURSIVE NameLess(_, _)
NameLess(a, b) ==
    IF b = << >> THEN FALSE
    ELSE IF a = << >> THEN TRUE
    ELSE IF Head(a) = Head(b) THEN NameLess(Tail(a), Tail(b))
    ELSE Code(Head(a)) < Code(Head(b))

\* QDir::Name sort of a set of distinct names: ascending by name.
RECURSIVE SortByName(_)
SortByName(S) ==
    IF S = {} THEN << >>
    ELSE LET m == CHOOSE x \in S : \A y \in S \ {x} : NameLess(x, y)
         IN  << m >> \o SortByName(S \ {m})

\* Wildcard matching of a QDir name filter ("*" any run, "?" one character).
\* Name filters are matched case-insensitively unless QDir::CaseSensitive is
\* set, and none of the callers sets it.
RECURSIVE WildcardMatch(_, _)
WildcardMatch(p, s) ==
    IF p = << >> THEN s = << >>
    ELSE IF Head(p) = "*"
         THEN WildcardMatch(Tail(p), s) \/ (s # << >> /\ WildcardMatch(p, Tail(s)))
    ELSE IF s = << >> THEN FALSE
    ELSE IF Head(p) = "?" THEN WildcardMatch(Tail(p), Tail(s))
    ELSE ToLowerChar(Head(p)) = ToLowerChar(Head(s)) /\ WildcardMatch(Tail(p), Tail(s))

S_zip == << ".", "z", "i", "p" >>

S_star_zip == << "*" >> \o S_zip

S_backup == << "b", "a", "c", "k", "u", "p", "-" >>

\* backupDir.entryInfoList({ filter }, QDir::Files | QDir::NoSymLinks, ...)
EntryList(dir, filter) == { f \in dir : WildcardMatch(filter, f) }

(***************************************************************************)
(* DATETIME_FORMAT "yyyy-MM-dd_HH-mm-ss" and DATETIME_FORMAT_RE            *)
(***************************************************************************)

DATETIME_LEN == 19

SECS_PER_DAY == 24 * 3600

USECS_PER_SECOND == 1000 * 1000

\* Floor division and modulus for any sign of the dividend.
FloorDiv(a, b) == IF a >= 0 THEN a \div b ELSE -((-a + b - 1) \div b)

FloorMod(a, b) == a - b * FloorDiv(a, b)

\* Days since 1970-01-01 of a proleptic Gregorian date.
DaysFromCivil(y, m, d) ==
    LET yy  == IF m <= 2 THEN y - 1 ELSE y
        era == FloorDiv(yy, 400)
        yoe == yy - era * 400
        mp  == IF m > 2 THEN m - 3 ELSE m + 9
        doy == (153 * mp + 2) \div 5 + d - 1
        doe == yoe * 365 + yoe \div 4 - yoe \div 100 + doy
    IN  era * 146097 + doe - 719468

\* The date of a day number (the inverse of DaysFromCivil).
CivilFromDays(z0) ==
    LET z   == z0 + 719468
        era == FloorDiv(z, 146097)
        doe == z - era * 146097
        yoe == (doe - doe \div 1460 + doe \div 36524 - doe \div 146096) \div 365
        doy == doe - (365 * yoe + yoe \div 4 - yoe \div 100)
        mp  == (5 * doy + 2) \div 153
        d   == doy - (153 * mp + 2) \div 5 + 1
        m   == IF mp < 10 THEN mp + 3 ELSE mp - 9
        y   == yoe + era * 400 + (IF m <= 2 THEN 1 ELSE 0)
    IN  [y |-> y, m |-> m, d |-> d]

IsLeap(y) == (y % 4 = 0 /\ y % 100 # 0) \/ y % 400 = 0

DaysInMonth(y, m) ==
    IF m = 2 THEN (IF IsLeap(y) THEN 29 ELSE 28)
    ELSE IF m \in {4, 6, 9, 11} THEN 30 ELSE 31

\* A number as `width` decimal digits, zero padded.
RECURSIVE Pad(_, _)
Pad(n, width) ==
    IF width = 0 THEN << >>
    ELSE Pad(n \div 10, width - 1) \o << Digits[(n % 10) + 1] >>

\* The number written by a run of digits.
RECURSIVE Num(_)
Num(s) == IF s = << >> THEN 0 ELSE 10 * Num(SubSeq(s, 1, Len(s) - 1)) + DigitVal(s[Len(s)])

\* QDateTime::toString(DATETIME_FORMAT) of the date-time `secs` seconds after
\* the epoch.
FormatDateTime(secs) ==
    LET c   == CivilFromDays(FloorDiv(secs, SECS_PER_DAY))
        sod == FloorMod(secs, SECS_PER_DAY)
    IN  Pad(c.y, 4) \o << "-" >> \o Pad(c.m, 2) \o << "-" >> \o Pad(c.d, 2) \o << "_" >>
        \o Pad(sod \div 3600, 2) \o << "-" >> \o Pad((sod \div 60) % 60, 2) \o << "-" >>
        \o Pad(sod % 60, 2)

\* DATETIME_FORMAT_RE: \d{4}-\d{2}-\d{2}_\d{2}-\d{2}-\d{2}
MatchesDateTimeRE(s) ==
    /\ Len(s) = DATETIME_LEN
    /\ \A i \in 1..DATETIME_LEN :
          IF i \in {5, 8, 14, 17} THEN s[i] = "-"
          ELSE IF i = 11 THEN s[i] = "_"
          ELSE IsDigit(s[i])

\* The null QDateTime: invalid, and less than every valid date-time.
NullDateTime == [valid |-> FALSE, secs |-> 0]

\* QDateTime::fromString(datetime, DATETIME_FORMAT) of a string that matches
\* DATETIME_FORMAT_RE.
ParseDateTime(s) ==
    LET y  == Num(SubSeq(s, 1, 4))
        mo == Num(SubSeq(s, 6, 7))
        d  == Num(SubSeq(s, 9, 10))
        h  == Num(SubSeq(s, 12, 13))
        mi == Num(SubSeq(s, 15, 16))
        se == Num(SubSeq(s, 18, 19))
    IN  IF /\ y >= 1
           /\ mo \in 1..12
           /\ d >= 1
           /\ d <= DaysInMonth(y, mo)
           /\ h <= 23
           /\ mi <= 59
           /\ se <= 59
        THEN [valid |-> TRUE,
              secs  |-> DaysFromCivil(y, mo, d) * SECS_PER_DAY + h * 3600 + mi * 60 + se]
        ELSE NullDateTime

\* QDateTime operator> (since Qt 5.14 an invalid date-time is less than every
\* valid one).
DateTimeGreater(a, b) ==
    IF ~a.valid THEN FALSE
    ELSE IF ~b.valid THEN TRUE
    ELSE a.secs > b.secs

(***************************************************************************)
(* Archive Index Scanner                                                   *)
(***************************************************************************)

\* formatRE.exactMatch(fileName), formatRE being
\* QRegExp::escape(format) + "(" + DATETIME_FORMAT_RE + ")" + "\\.zip"
FormatREMatch(format, fileName) ==
    LET n == Len(format)
    IN  /\ Len(fileName) = n + DATETIME_LEN + Len(S_zip)
        /\ SubSeq(fileName, 1, n) = format
        /\ MatchesDateTimeRE(SubSeq(fileName, n + 1, n + DATETIME_LEN))
        /\ SubSeq(fileName, n + DATETIME_LEN + 1, Len(fileName)) = S_zip

\* formatRE.cap(1)
FormatRECap(format, fileName) == SubSeq(fileName, Len(format) + 1, Len(format) + DATETIME_LEN)

\* One iteration of the while loop of getMostRecentBackup.
ScanEntry(best, format, fileName) ==
    IF FormatREMatch(format, fileName)
    THEN LET createdAt == ParseDateTime(FormatRECap(format, fileName))
         IN  IF ~createdAt.valid THEN best
             ELSE IF DateTimeGreater(createdAt, best.time)
                  THEN [found |-> TRUE, file |-> fileName, time |-> createdAt]
                  ELSE best
    ELSE best

RECURSIVE ScanLoop(_, _, _)
ScanLoop(best, format, entries) ==
    IF entries = << >> THEN best
    ELSE ScanLoop(ScanEntry(best, format, Head(entries)), format, Tail(entries))

\* getMostRecentBackup(format, ...) over the directory entries in the order
\* `order` (a sequence holding each file of the directory once) in which the
\* QDirIterator hands them out.
getMostRecentBackup(order, format) ==
    LET filter  == format \o S_star_zip
        entries == SelectSeq(order, LAMBDA f : WildcardMatch(filter, f))
    IN  ScanLoop([found |-> FALSE, file |-> << >>, time |-> NullDateTime], format, entries)

getMostRecentBackupTimeInSecs(order, format) ==
    LET r == getMostRecentBackup(order, format)
    IN  IF r.found THEN r.time.secs ELSE 0

(***************************************************************************)
(* Retention Enforcer                                                      *)
(***************************************************************************)

\* A retention whose loop runs once too often.
BackupsToDelete_OneMore(dir, dirExists, rule) ==
    IF dirExists /\ rule.maxBackupVersions > 0
    THEN LET matchingFiles   == SortByName(EntryList(dir, rule.extensionFormat \o S_star_zip))
             backupsToDelete == Len(matchingFiles) - rule.maxBackupVersions
         IN  { matchingFiles[i] : i \in 1..backupsToDelete } \cup
             { matchingFiles[i] : i \in {j \in 1..Len(matchingFiles) : j = backupsToDelete + 1} }
    ELSE {}

\* The files removeOldBackupVersions(rule) tries to delete: the first
\* matchingFiles.length() - maxBackupVersions entries of the by-name listing.
BackupsToDelete(dir, dirExists, rule) ==
    IF dirExists /\ rule.maxBackupVersions > 0
    THEN LET matchingFiles   == SortByName(EntryList(dir, rule.extensionFormat \o S_star_zip))
             backupsToDelete == Len(matchingFiles) - rule.maxBackupVersions
         IN  { matchingFiles[i] : i \in 1..backupsToDelete }
    ELSE {}

\* The directory after removeOldBackupVersions(rule); backupFile.remove() fails
\* on the files of `undeletable` and the loop goes on.
removeOldBackupVersions(dir, dirExists, rule, undeletable) ==
    dir \ (BackupsToDelete(dir, dirExists, rule) \ undeletable)

(***************************************************************************)
(* Rule Store                                                              *)
(***************************************************************************)

\* A rule that is left at "never backed up" whatever the directory holds.
NewRule_Unseeded(obj, order) ==
    LET name   == ReplaceSpaces(obj.Name)
        format == ToLower(name) \o << "-" >>
    IN  [name              |-> name,
         intervalSeconds   |-> obj.backupInterval,
         extensionFormat   |-> format,
         maxBackupVersions |-> obj.maxBackupVersions,
         lastBackupSeconds |-> 0]

\* One BackupRule of parseSettings: name.replace(" ", "_") changes name in
\* place, and the format read from the settings is overwritten.
NewRule(obj, order) ==
    LET name   == ReplaceSpaces(obj.Name)
        format == ToLower(name) \o << "-" >>
    IN  [name              |-> name,
         intervalSeconds   |-> obj.backupInterval,
         extensionFormat   |-> format,
         maxBackupVersions |-> obj.maxBackupVersions,
         lastBackupSeconds |-> getMostRecentBackupTimeInSecs(order, format)]

parseSettings(settings, order) == [i \in 1..Len(settings) |-> NewRule(settings[i], order)]

(***************************************************************************)
(* Loader                                                                  *)
(***************************************************************************)

\* The number of handlers registered before the manager is started.
NumHandlers == 2

\* The number of handlers addBackupHandler() may bring _backupHandlers to.
MaxHandlers == 3

VARIABLE handlers   \* the length of _backupHandlers

\* _backupHandlers, in registration order
Handlers == 1..handlers

\* The handler invocations made against one archive: every handler once, in
\* registration order.
HandlerCalls(op, file) == [h \in Handlers |-> [op |-> op, handler |-> h, file |-> file]]

\* A loop that ends at the first archive that does not open.
RECURSIVE LoadLoop_StopsAtFailure(_, _)
LoadLoop_StopsAtFailure(entries, unopenable) ==
    IF entries = << >> \/ Head(entries) \in unopenable THEN << >>
    ELSE HandlerCalls("loadBackup", Head(entries))
         \o LoadLoop_StopsAtFailure(Tail(entries), unopenable)

\* The calls of a pass `for (auto& handler : _backupHandlers)` that ends after
\* `made` calls.
CutShort(op, file, made) == SubSeq(HandlerCalls(op, file), 1, made)

\* The body of load()'s loop for one archive: an archive that does not open
\* (as a file or as a zip archive) is logged and passed over, one that opens is
\* given to every handler's loadBackup.
LoadEntry(file, opens) == IF opens THEN HandlerCalls("loadBackup", file) ELSE << >>

\* The loop of load() over matchingFiles, run with no registration in between.
RECURSIVE LoadLoop(_, _)
LoadLoop(entries, unopenable) ==
    IF entries = << >> THEN << >>
    ELSE LoadEntry(Head(entries), Head(entries) \notin unopenable)
         \o LoadLoop(Tail(entries), unopenable)

\* The handler invocations of load(); the files of `unopenable` fail to open
\* (as a file or as a zip archive) and are skipped.
load(dir, dirExists, unopenable) ==
    IF dirExists
    THEN LoadLoop(SortByName(EntryList(dir, S_backup \o S_star_zip)), unopenable)
    ELSE << >>

(***************************************************************************)
(* Backup Executor                                                         *)
(***************************************************************************)

\* "backup-" + rule.extensionFormat + timestamp + ".zip"
ArchiveFileName(rule, timestamp) == S_backup \o rule.extensionFormat \o timestamp \o S_zip

\* A due test with its operands the wrong way round.
RuleIsDue_Swapped(rule, now) ==
    rule.lastBackupSeconds - now > rule.intervalSeconds

\* A firing test that also fires at the very end of the interval.
RuleIsDue_AtInterval(rule, now) == now - rule.lastBackupSeconds >= rule.intervalSeconds

\* secondsSinceLastBackup > rule.intervalSeconds
RuleIsDue(rule, now) == now - rule.lastBackupSeconds > rule.intervalSeconds

(***************************************************************************)
(* Configurations and directories of the model                             *)
(***************************************************************************)

MSECS_TO_USECS == 1000

\* the sleep of process(): 10 ms
USECS_TO_SLEEP == 10 * MSECS_TO_USECS

\* _persistInterval, in milliseconds, as passed to the constructor
PersistInterval == 1000

\* The clock moves in steps of half a second.
TickUsec == USECS_PER_SECOND \div 2

\* The clock never passes MaxTicks steps.
MaxTicks == 9

\* The clock at construction: one second after the epoch.
StartClock == 2 * TickUsec

ClockSeconds(c) == c \div USECS_PER_SECOND

N_Daily == << "D", "a", "i", "l", "y" >>

\* The "backups" arrays of the settings the model is run with.
RuleSettings ==
    { << [Name |-> N_Daily, backupInterval |-> 1, maxBackupVersions |-> 1] >>,
      << [Name |-> << "a" >>, backupInterval |-> 0, maxBackupVersions |-> 1],
         [Name |-> << "b" >>, backupInterval |-> 1, maxBackupVersions |-> 0] >> }

F_daily == << "d", "a", "i", "l", "y", "-" >>

\* A file named as the scanner and the retention expect it: format + timestamp + ".zip"
PlainName(format, secs) == format \o FormatDateTime(secs) \o S_zip

\* A file named as backup() names it.
BackupName(format, secs) == S_backup \o PlainName(format, secs)

\* The directories the manager is constructed on.
InitDirs ==
    { {},
      { PlainName(F_daily, 0), PlainName(F_daily, 1) },
      { BackupName(F_daily, 0), BackupName(F_daily, 1) },
      { BackupName(<< "a", "-" >>, 1), BackupName(<< "b", "-" >>, 0) } }

\* The orders in which a QDirIterator may hand out the files of a directory.
DirOrders(dir) ==
    { o \in [1..Cardinality(dir) -> dir] : \A i, j \in DOMAIN o : o[i] = o[j] => i = j }

(***************************************************************************)
(* The manager, its worker thread and the persist guard                    *)
(***************************************************************************)

\* The state of the manager, of its worker thread and of the backup directory.
VARIABLES
    clock,          \* the wall clock, in microseconds since the epoch
    files,          \* the names of the files of _backupDirectory (running.lock apart)
    marker,         \* TRUE iff _backupDirectory/running.lock exists
    rules,          \* _backupRules
    lastCheck,      \* _lastCheck
    stopThread,     \* the stop request: isStillRunning() is ~stopThread
    pc,             \* where the worker thread is
    caller,         \* which function called the persist() underway
    ruleIdx,        \* the position of backup()'s loop over _backupRules
    nowSeconds,     \* backup()'s nowSeconds
    calls,          \* the handler invocations of the operation underway or last run
    cycPre,         \* lastBackupSeconds of every rule when the cycle's backup() began
    cycFired,       \* the rules whose branch "doing backup now" ran in the cycle
    cycCreated,     \* per rule, the archive name built in the cycle (<< >> if none)
    lockOpened,     \* whether the last persist() could open running.lock
    removedOk,      \* whether the last remove() of running.lock succeeded
    active,         \* the number of persist cycles underway
    started,        \* the number of persist() calls made so far
    finalPersists,  \* the number of persist() calls made by aboutToFinish()
    skipped,        \* the number of persist() calls that could not open running.lock
    delFailed,      \* whether a deletion of the retention failed in the cycle
    arg,            \* the input of a function applied on its own (SpecScan, SpecRetain)
    res,            \* its result
    matchingFiles,  \* what is left of load()'s matchingFiles, the archives to open
    hist            \* the run so far: the time read by the latest process() call, per
                    \* rule the archive names its firings have built and the nowSeconds
                    \* of its latest firing, and the number of restarts of the process

vars == << clock, files, marker, rules, lastCheck, stopThread, pc, caller, ruleIdx,
           nowSeconds, calls, cycPre, cycFired, cycCreated, lockOpened, removedOk,
           active, started, finalPersists, skipped, delFailed, arg, res, hist,
           handlers, matchingFiles >>

\* The record f of the rules' latest firings (the nowSeconds of the firing and
\* the archive it wrote, << >> if none), with r for the latest firing of rule i.
Recorded(f, i, r) == [j \in DOMAIN f \cup {i} |-> IF j = i THEN r ELSE f[j]]

\* Nothing has run yet.
NoHistory == [tickNow |-> 0, namesUsed |-> {}, firedAt |-> << >>, restarts |-> 0]

\* The state after the constructor: _lastCheck(usecTimestampNow()) and
\* parseSettings(settings) on a directory that may hold a stale running.lock.
Constructed(settingsSet, dirs) ==
    /\ clock = StartClock
    /\ files \in dirs
    /\ marker \in BOOLEAN
    /\ \E settings \in settingsSet : \E order \in DirOrders(files) :
          rules = parseSettings(settings, order)
    /\ lastCheck = clock
    /\ stopThread = FALSE
    /\ pc = "setup"
    /\ caller = "none"
    /\ ruleIdx = 0
    /\ nowSeconds = 0
    /\ calls = << >>
    /\ cycPre = << >>
    /\ cycFired = {}
    /\ cycCreated = << >>
    /\ lockOpened = FALSE
    /\ removedOk = FALSE
    /\ active = 0
    /\ started = 0
    /\ finalPersists = 0
    /\ skipped = 0
    /\ delFailed = FALSE
    /\ arg = "none"
    /\ res = "none"
    /\ hist = NoHistory
    /\ handlers = NumHandlers
    /\ matchingFiles = << >>

Init == Constructed(RuleSettings, InitDirs)

\* Time passes.
Tick ==
    /\ UNCHANGED << handlers, matchingFiles >>
    /\ UNCHANGED hist
    /\ clock + TickUsec <= MaxTicks * TickUsec
    /\ clock' = clock + TickUsec
    /\ UNCHANGED << files, marker, rules, lastCheck, stopThread, pc, caller, ruleIdx,
                    nowSeconds, calls, cycPre, cycFired, cycCreated, lockOpened,
                    removedOk, active, started, finalPersists, skipped, delFailed, arg, res >>

\* The owner of the thread asks it to stop.
Stop ==
    /\ UNCHANGED << handlers, matchingFiles >>
    /\ UNCHANGED hist
    /\ pc \notin {"done", "dead"}
    /\ ~stopThread
    /\ stopThread' = TRUE
    /\ UNCHANGED << clock, files, marker, rules, lastCheck, pc, caller, ruleIdx,
                    nowSeconds, calls, cycPre, cycFired, cycCreated, lockOpened,
                    removedOk, active, started, finalPersists, skipped, delFailed, arg, res >>

\* setup(): load() up to its loop. The directory, which the constructor has
\* made, is listed once, sorted by name; with nothing listed load() returns.
Setup ==
    /\ pc = "setup"
    /\ matchingFiles' = SortByName(EntryList(files, S_backup \o S_star_zip))
    /\ pc' = IF matchingFiles' = << >> THEN "run" ELSE "load"
    /\ calls' = << >>
    /\ UNCHANGED << clock, files, marker, rules, lastCheck, stopThread, caller, ruleIdx,
                    nowSeconds, cycPre, cycFired, cycCreated, lockOpened, removedOk,
                    active, started, finalPersists, skipped, delFailed, arg, res,
                    hist, handlers >>

\* One iteration of the loop of load(), on the first archive left. A
\* registration made between two iterations is the step AddBackupHandler, and
\* so is one made during the pass over _backupHandlers that the pass survives
\* (it goes on to the end it read when it began). A registration made during
\* the pass reallocates _backupHandlers under the pass's iterator, which is
\* undefined behaviour: the process may die on the next handler it reads, after
\* any number of calls short of the whole pass.
LoadArchive ==
    /\ pc = "load"
    /\ \/ /\ \E opens \in BOOLEAN :
                calls' = calls \o LoadEntry(Head(matchingFiles), opens)
          /\ matchingFiles' = Tail(matchingFiles)
          /\ pc' = IF matchingFiles' = << >> THEN "run" ELSE "load"
          /\ UNCHANGED handlers
       \/ /\ handlers < MaxHandlers
          /\ \E made \in 0..(handlers - 1) :
                calls' = calls \o CutShort("loadBackup", Head(matchingFiles), made)
          /\ handlers' = handlers + 1
          /\ pc' = "dead"
          /\ UNCHANGED matchingFiles
    /\ UNCHANGED << clock, files, marker, rules, lastCheck, stopThread, caller, ruleIdx,
                    nowSeconds, cycPre, cycFired, cycCreated, lockOpened, removedOk,
                    active, started, finalPersists, skipped, delFailed, arg, res,
                    hist >>

\* A worker whose functions are entered while a persist() is underway.
WorkerIdle_Anytime == pc \in {"run", "persist", "backup"}

\* The worker thread calls process() again and again, on one thread, until it
\* returns false, and then calls aboutToFinish() once.
WorkerIdle == pc = "run"

\* A gate that also opens when exactly one check interval has passed.
CheckIsDue_AtInterval(now, last) == now - last >= PersistInterval * MSECS_TO_USECS

\* sinceLastSave > intervalToCheck
CheckIsDue(now, last) == now - last > PersistInterval * MSECS_TO_USECS

\* process() is entered: isStillRunning() holds and the thread goes to sleep.
ProcessEnter ==
    /\ WorkerIdle
    /\ ~stopThread
    /\ pc' = "sleep"
    /\ UNCHANGED << clock, files, marker, rules, lastCheck, stopThread, caller, ruleIdx,
                    nowSeconds, calls, cycPre, cycFired, cycCreated, lockOpened,
                    removedOk, active, started, finalPersists, skipped, delFailed,
                    arg, res, hist, handlers, matchingFiles >>

\* process() after its sleep (at least USECS_TO_SLEEP, here one step of the
\* clock): it reads the clock and calls persist() if the check interval has
\* passed, whether a stop has been requested in the meantime or not.
Process ==
    /\ pc = "sleep"
    /\ TickUsec >= USECS_TO_SLEEP
    /\ clock + TickUsec <= MaxTicks * TickUsec
    /\ clock' = clock + TickUsec
    /\ hist' = [hist EXCEPT !.tickNow = clock']
    /\ IF CheckIsDue(clock', lastCheck)
       THEN /\ lastCheck' = clock'
            /\ pc' = "persist"
            /\ caller' = "process"
            /\ started' = started + 1
       ELSE /\ pc' = "run"
            /\ UNCHANGED << lastCheck, caller, started >>
    /\ UNCHANGED << files, marker, rules, stopThread, ruleIdx, nowSeconds, calls,
                    cycPre, cycFired, cycCreated, lockOpened, removedOk, active,
                    finalPersists, skipped, delFailed, arg, res, handlers,
                    matchingFiles >>

\* addBackupHandler(handler): _backupHandlers.push_back; nothing in the code
\* keeps it from being called on a manager that is running.
AddBackupHandler ==
    /\ pc # "dead"
    /\ handlers < MaxHandlers
    /\ handlers' = handlers + 1
    /\ UNCHANGED << clock, files, marker, rules, lastCheck, stopThread, pc, caller,
                    ruleIdx, nowSeconds, calls, cycPre, cycFired, cycCreated,
                    lockOpened, removedOk, active, started, finalPersists, skipped,
                    delFailed, arg, res, hist, matchingFiles >>

\* An aboutToFinish() that persists only if the check interval has passed.
AboutToFinish_OnlyIfDue ==
    /\ UNCHANGED << handlers, matchingFiles >>
    /\ UNCHANGED hist
    /\ WorkerIdle
    /\ stopThread
    /\ IF CheckIsDue(clock, lastCheck)
       THEN /\ pc' = "persist"
            /\ caller' = "aboutToFinish"
            /\ started' = started + 1
            /\ finalPersists' = finalPersists + 1
       ELSE /\ pc' = "done"
            /\ UNCHANGED << caller, started, finalPersists >>
    /\ UNCHANGED << clock, files, marker, rules, lastCheck, stopThread, ruleIdx,
                    nowSeconds, calls, cycPre, cycFired, cycCreated, lockOpened,
                    removedOk, active, skipped, delFailed, arg, res >>

\* aboutToFinish(): persist(), once process() has returned false.
AboutToFinish ==
    /\ UNCHANGED << handlers, matchingFiles >>
    /\ UNCHANGED hist
    /\ WorkerIdle
    /\ stopThread
    /\ pc' = "persist"
    /\ caller' = "aboutToFinish"
    /\ started' = started + 1
    /\ finalPersists' = finalPersists + 1
    /\ UNCHANGED << clock, files, marker, rules, lastCheck, stopThread, ruleIdx,
                    nowSeconds, calls, cycPre, cycFired, cycCreated, lockOpened,
                    removedOk, active, skipped, delFailed, arg, res >>

\* Where persist() returns to.
ReturnTo(c) == IF c = "process" THEN "run" ELSE "done"

\* The entry of backup(): it reads the clock and starts its loop.
EnterBackup ==
    /\ pc' = "backup"
    /\ active' = active + 1
    /\ nowSeconds' = ClockSeconds(clock)
    /\ ruleIdx' = 1
    /\ calls' = << >>
    /\ cycPre' = [i \in 1..Len(rules) |-> rules[i].lastBackupSeconds]
    /\ cycFired' = {}
    /\ cycCreated' = [i \in 1..Len(rules) |-> << >>]
    /\ delFailed' = FALSE
    /\ UNCHANGED << caller, skipped >>

\* A persist() that runs backup() whether running.lock is open or not.
PersistBegin_IgnoresLock ==
    /\ UNCHANGED << handlers, matchingFiles >>
    /\ UNCHANGED hist
    /\ pc = "persist"
    /\ \E isOpen \in BOOLEAN :
          /\ lockOpened' = isOpen
          /\ marker' = (marker \/ isOpen)
          /\ EnterBackup
    /\ UNCHANGED << clock, files, rules, lastCheck, stopThread, removedOk, started,
                    finalPersists, arg, res >>

\* A persist() that runs backup() without leaving running.lock behind.
PersistBegin_NoMarker ==
    /\ UNCHANGED << handlers, matchingFiles >>
    /\ UNCHANGED hist
    /\ pc = "persist"
    /\ \E isOpen \in BOOLEAN :
          /\ lockOpened' = isOpen
          /\ IF isOpen
             THEN /\ UNCHANGED marker
                  /\ EnterBackup
             ELSE /\ pc' = ReturnTo(caller)
                  /\ caller' = "none"
                  /\ skipped' = skipped + 1
                  /\ UNCHANGED << marker, active, nowSeconds, ruleIdx, calls, cycPre,
                                  cycFired, cycCreated, delFailed >>
    /\ UNCHANGED << clock, files, rules, lastCheck, stopThread, removedOk, started,
                    finalPersists, arg, res >>

\* persist() up to the first rule of backup(): mkpath, open running.lock and,
\* if it is open, enter backup(), which reads the clock.
PersistBegin ==
    /\ UNCHANGED << handlers, matchingFiles >>
    /\ UNCHANGED hist
    /\ pc = "persist"
    /\ \E isOpen \in BOOLEAN :
          /\ lockOpened' = isOpen
          /\ IF isOpen
             THEN /\ marker' = TRUE
                  /\ EnterBackup
             ELSE /\ pc' = ReturnTo(caller)
                  /\ caller' = "none"
                  /\ skipped' = skipped + 1
                  /\ UNCHANGED << marker, active, nowSeconds, ruleIdx, calls, cycPre,
                                  cycFired, cycCreated, delFailed >>
    /\ UNCHANGED << clock, files, rules, lastCheck, stopThread, removedOk, started,
                    finalPersists, arg, res >>

\* A firing that gives the rule up when its archive does not open.
Firing_GivesUpIfNotOpen(openOk, undeletable) ==
    LET rule      == rules[ruleIdx]
        timestamp == FormatDateTime(ClockSeconds(clock))
        fileName  == ArchiveFileName(rule, timestamp)
        written   == files \cup {fileName}
        fired     == [rule EXCEPT !.lastBackupSeconds = nowSeconds]
    IN  IF openOk
        THEN /\ calls' = calls \o HandlerCalls("createBackup", fileName)
             /\ rules' = [rules EXCEPT ![ruleIdx] = fired]
             /\ files' = removeOldBackupVersions(written, TRUE, fired, undeletable)
             /\ cycFired' = cycFired \cup {ruleIdx}
             /\ cycCreated' = [cycCreated EXCEPT ![ruleIdx] = fileName]
             /\ hist' = [hist EXCEPT !.namesUsed = @ \cup {<< ruleIdx, fileName >>},
                                     !.firedAt = Recorded(@, ruleIdx, [at |-> nowSeconds, file |-> fileName])]
             /\ delFailed' = (delFailed \/ undeletable # {})
        ELSE UNCHANGED << calls, rules, files, cycFired, cycCreated, delFailed, hist >>

\* The body of backup()'s loop for a due rule: the archive opens or not
\* (openOk, only logged), every handler's createBackup runs, the rule's
\* lastBackupSeconds becomes nowSeconds and the retention runs; its deletions
\* fail on the files of `undeletable`.
Firing(openOk, undeletable) ==
    LET rule      == rules[ruleIdx]
        timestamp == FormatDateTime(ClockSeconds(clock))
        fileName  == ArchiveFileName(rule, timestamp)
        written   == IF openOk THEN files \cup {fileName} ELSE files
        fired     == [rule EXCEPT !.lastBackupSeconds = nowSeconds]
    IN  /\ calls' = calls \o HandlerCalls("createBackup", fileName)
        /\ rules' = [rules EXCEPT ![ruleIdx] = fired]
        /\ files' = removeOldBackupVersions(written, TRUE, fired, undeletable)
        /\ cycFired' = cycFired \cup {ruleIdx}
        /\ cycCreated' = [cycCreated EXCEPT ![ruleIdx] =
                             IF openOk THEN fileName ELSE << >>]
        /\ hist' = [hist EXCEPT !.namesUsed = @ \cup {<< ruleIdx, fileName >>},
                                !.firedAt = Recorded(@, ruleIdx,
                                    [at   |-> nowSeconds,
                                     file |-> IF openOk THEN fileName ELSE << >>])]
        /\ delFailed' = (delFailed \/ undeletable # {})

\* The files the retention of a firing of rule ruleIdx tries to delete, the
\* archive of the firing written (openOk) or not.
ToDeleteAfter(openOk) ==
    LET rule     == rules[ruleIdx]
        fileName == ArchiveFileName(rule, FormatDateTime(ClockSeconds(clock)))
    IN  BackupsToDelete(IF openOk THEN files \cup {fileName} ELSE files, TRUE, rule)

\* The body of backup()'s loop for a due rule when a registration made during
\* its pass over _backupHandlers reallocates the vector under the pass's
\* iterator (undefined behaviour) and the process dies on the next handler it
\* reads: the archive is there if it opened, `made` calls have been made,
\* lastBackupSeconds is not set, the retention does not run and running.lock
\* stays.
FiringCutShort(openOk, made) ==
    LET rule      == rules[ruleIdx]
        timestamp == FormatDateTime(ClockSeconds(clock))
        fileName  == ArchiveFileName(rule, timestamp)
    IN  /\ calls' = calls \o CutShort("createBackup", fileName, made)
        /\ files' = IF openOk THEN files \cup {fileName} ELSE files
        /\ cycFired' = cycFired \cup {ruleIdx}
        /\ cycCreated' = [cycCreated EXCEPT ![ruleIdx] =
                             IF openOk THEN fileName ELSE << >>]
        /\ hist' = [hist EXCEPT !.namesUsed = @ \cup {<< ruleIdx, fileName >>}]
        /\ handlers' = handlers + 1
        /\ pc' = "dead"
        /\ UNCHANGED << rules, delFailed, ruleIdx >>

\* A loop that ends at the first rule whose archive does not open or whose
\* retention fails.
BackupRule_StopsAtFailure ==
    /\ pc = "backup"
    /\ ruleIdx <= Len(rules)
    /\ IF RuleIsDue(rules[ruleIdx], nowSeconds)
       THEN \E openOk \in BOOLEAN :
              \/ \E undeletable \in SUBSET ToDeleteAfter(openOk) :
                    /\ Firing(openOk, undeletable)
                    /\ ruleIdx' = IF openOk /\ ~delFailed' THEN ruleIdx + 1 ELSE Len(rules) + 1
                    /\ UNCHANGED << pc, handlers >>
              \/ /\ handlers < MaxHandlers
                 /\ \E made \in 0..(handlers - 1) : FiringCutShort(openOk, made)
       ELSE /\ UNCHANGED << calls, rules, files, cycFired, cycCreated, delFailed, hist,
                            pc, handlers >>
            /\ ruleIdx' = ruleIdx + 1
    /\ UNCHANGED << clock, marker, lastCheck, stopThread, caller, nowSeconds,
                    cycPre, lockOpened, removedOk, active, started, finalPersists,
                    skipped, arg, res, matchingFiles >>

\* One iteration of the loop of backup(), on rule ruleIdx.
BackupRule ==
    /\ pc = "backup"
    /\ ruleIdx <= Len(rules)
    /\ IF RuleIsDue(rules[ruleIdx], nowSeconds)
       THEN \E openOk \in BOOLEAN :
              \/ \E undeletable \in SUBSET ToDeleteAfter(openOk) :
                    /\ Firing(openOk, undeletable)
                    /\ ruleIdx' = ruleIdx + 1
                    /\ UNCHANGED << pc, handlers >>
              \/ /\ handlers < MaxHandlers
                 /\ \E made \in 0..(handlers - 1) : FiringCutShort(openOk, made)
       ELSE /\ UNCHANGED << calls, rules, files, cycFired, cycCreated, delFailed, hist,
                            pc, handlers >>
            /\ ruleIdx' = ruleIdx + 1
    /\ UNCHANGED << clock, marker, lastCheck, stopThread, caller, nowSeconds,
                    cycPre, lockOpened, removedOk, active, started, finalPersists,
                    skipped, arg, res, matchingFiles >>

\* persist() after backup() has returned: close and remove running.lock.
PersistEnd ==
    /\ UNCHANGED << handlers, matchingFiles >>
    /\ UNCHANGED hist
    /\ pc = "backup"
    /\ ruleIdx > Len(rules)
    /\ \E ok \in BOOLEAN :
          /\ removedOk' = ok
          /\ marker' = IF ok THEN FALSE ELSE marker
    /\ pc' = ReturnTo(caller)
    /\ caller' = "none"
    /\ active' = active - 1
    /\ UNCHANGED << clock, files, rules, lastCheck, stopThread, ruleIdx, nowSeconds,
                    calls, cycPre, cycFired, cycCreated, lockOpened, started,
                    finalPersists, skipped, delFailed, arg, res >>

Next ==
    \/ Tick
    \/ Stop
    \/ Setup
    \/ LoadArchive
    \/ AddBackupHandler
    \/ ProcessEnter
    \/ Process
    \/ AboutToFinish
    \/ PersistBegin
    \/ BackupRule
    \/ PersistEnd

Spec == Init /\ [][Next]_vars

\* The process is restarted at most MaxRestarts times.
MaxRestarts == 1

\* After the worker thread has ended, or the process has died, the process is
\* started again on the same settings and the same backup directory: the
\* constructor runs again and the handlers registered before the start are
\* registered again; nothing of the old process is kept but the files.
Restart ==
    /\ pc \in {"done", "dead"}
    /\ handlers' = NumHandlers
    /\ matchingFiles' = << >>
    /\ hist.restarts < MaxRestarts
    /\ hist' = [hist EXCEPT !.restarts = @ + 1]
    /\ \E order \in DirOrders(files) :
          rules' = parseSettings([i \in 1..Len(rules) |->
                                     [Name              |-> rules[i].name,
                                      backupInterval    |-> rules[i].intervalSeconds,
                                      maxBackupVersions |-> rules[i].maxBackupVersions]],
                                 order)
    /\ lastCheck' = clock
    /\ stopThread' = FALSE
    /\ pc' = "setup"
    /\ caller' = "none"
    /\ ruleIdx' = 0
    /\ nowSeconds' = 0
    /\ calls' = << >>
    /\ cycPre' = << >>
    /\ cycFired' = {}
    /\ cycCreated' = << >>
    /\ lockOpened' = FALSE
    /\ removedOk' = FALSE
    /\ active' = 0
    /\ started' = 0
    /\ finalPersists' = 0
    /\ skipped' = 0
    /\ delFailed' = FALSE
    /\ UNCHANGED << clock, files, marker, arg, res >>

NextRestart ==
    \/ Next
    \/ Restart

\* The restarts are tried on one rule and on a backup directory that is empty
\* when the first process is constructed.
RestartSettings ==
    { << [Name |-> N_Daily, backupInterval |-> 1, maxBackupVersions |-> 1] >> }

InitRestart == Constructed(RestartSettings, { {} })

SpecRestart == InitRestart /\ [][NextRestart]_vars

\* The manager run with two rules of which the second is named "Backup", so
\* that its format is "backup-" and its retention lists backup-*.zip; the
\* directory may hold an archive written by an earlier run, or one whose
\* timestamp is ahead of the clock.
N_Backup == << "B", "a", "c", "k", "u", "p" >>

TwoRuleSettings ==
    { << [Name |-> N_Daily,  backupInterval |-> 1, maxBackupVersions |-> 1],
         [Name |-> N_Backup, backupInterval |-> 0, maxBackupVersions |-> 1] >> }

FutureSeconds == (MaxTicks * TickUsec) \div USECS_PER_SECOND - 1

TwoRuleDirs ==
    { {},
      { PlainName(F_daily, 0), PlainName(F_daily, 1) },
      { PlainName(F_daily, FutureSeconds), BackupName(F_daily, 0) } }

InitTwoRules == Constructed(TwoRuleSettings, TwoRuleDirs)

SpecTwoRules == InitTwoRules /\ [][Next]_vars

(***************************************************************************)
(* The retention and the scanner applied on their own                      *)
(***************************************************************************)

\* The manager's own state while one function is applied to a directory.
AtRest(dir, rs, p) ==
    /\ clock = StartClock
    /\ files = dir
    /\ marker = FALSE
    /\ rules = rs
    /\ lastCheck = StartClock
    /\ stopThread = FALSE
    /\ pc = p
    /\ caller = "none"
    /\ ruleIdx = 0
    /\ nowSeconds = 0
    /\ calls = << >>
    /\ cycPre = << >>
    /\ cycFired = {}
    /\ cycCreated = << >>
    /\ lockOpened = FALSE
    /\ removedOk = FALSE
    /\ active = 0
    /\ started = 0
    /\ finalPersists = 0
    /\ skipped = 0
    /\ delFailed = FALSE
    /\ hist = NoHistory
    /\ handlers = NumHandlers
    /\ matchingFiles = << >>

\* The retention is tried on up to MaxArchives archives of one rule and on
\* maxBackupVersions from -1 to MaxRetain.
MaxArchives == 4

MaxRetain == 3

F_Daily == << "D", "a", "i", "l", "y", "-" >>

RetainFiles ==
    { PlainName(F_daily, t) : t \in 0..(MaxArchives - 1) }
    \cup { PlainName(F_Daily, 0),
           BackupName(F_daily, 1),
           F_daily \o << "x" >> \o S_zip }

RetainInit ==
    /\ res = "none"
    /\ \E dir \in SUBSET RetainFiles, dirExists \in BOOLEAN, m \in (-1)..MaxRetain :
          /\ ~dirExists => dir = {}
          /\ arg = [dir |-> dir, dirExists |-> dirExists]
          /\ AtRest(dir,
                    << NewRule([Name |-> N_Daily, backupInterval |-> 1,
                                maxBackupVersions |-> m], << >>) >>,
                    "retain")

\* removeOldBackupVersions(rule), some of the deletions failing.
Retain ==
    /\ UNCHANGED << handlers, matchingFiles >>
    /\ UNCHANGED hist
    /\ pc = "retain"
    /\ \E undeletable \in SUBSET BackupsToDelete(files, arg.dirExists, rules[1]) :
          /\ files' = removeOldBackupVersions(files, arg.dirExists, rules[1], undeletable)
          /\ res' = [undeletable |-> undeletable]
    /\ pc' = "retained"
    /\ UNCHANGED << clock, marker, rules, lastCheck, stopThread, caller, ruleIdx,
                    nowSeconds, calls, cycPre, cycFired, cycCreated, lockOpened,
                    removedOk, active, started, finalPersists, skipped, delFailed, arg >>

SpecRetain == RetainInit /\ [][Retain]_vars

\* The scanner is tried on directories of up to MaxScanFiles files.
MaxScanFiles == 3

\* 2024-01-01 00:00:00 and 2024-06-01 00:00:00, in seconds since the epoch
Jan2024 == DaysFromCivil(2024, 1, 1) * SECS_PER_DAY

Jun2024 == DaysFromCivil(2024, 6, 1) * SECS_PER_DAY

\* "1970-13-01_00-00-00" and "1970-02-30_00-00-00": they match
\* DATETIME_FORMAT_RE and are no date.
BadMonth == Pad(1970, 4) \o << "-" >> \o Pad(13, 2) \o SubSeq(FormatDateTime(0), 8, DATETIME_LEN)

BadDay == Pad(1970, 4) \o << "-" >> \o Pad(2, 2) \o << "-" >> \o Pad(30, 2)
          \o SubSeq(FormatDateTime(0), 11, DATETIME_LEN)

ScanFiles ==
    { PlainName(F_daily, t) : t \in {0, 1, Jan2024, Jun2024} }
    \cup { BackupName(F_daily, Jan2024),
           BackupName(F_daily, Jun2024),
           F_daily \o BadMonth \o S_zip,
           F_daily \o BadDay \o S_zip,
           F_daily \o << "x" >> \o S_zip,
           PlainName(F_Daily, Jun2024),
           PlainName(<< "a", "-" >>, 1) }

ScanInit ==
    /\ res = "none"
    /\ \E dir \in SUBSET ScanFiles, format \in {F_daily, << "a", "-" >>} :
          /\ Cardinality(dir) <= MaxScanFiles
          /\ arg = [format |-> format]
          /\ AtRest(dir, << >>, "scan")

\* getMostRecentBackup(format, ...), the directory handed out in any order.
Scan ==
    /\ UNCHANGED << handlers, matchingFiles >>
    /\ UNCHANGED hist
    /\ pc = "scan"
    /\ \E order \in DirOrders(files) : res' = getMostRecentBackup(order, arg.format)
    /\ pc' = "scanned"
    /\ UNCHANGED << clock, files, marker, rules, lastCheck, stopThread, caller, ruleIdx,
                    nowSeconds, calls, cycPre, cycFired, cycCreated, lockOpened,
                    removedOk, active, started, finalPersists, skipped, delFailed, arg >>

SpecScan == ScanInit /\ [][Scan]_vars

\* load() is tried on directories of up to MaxLoadFiles files, present or
\* missing, any of the archives failing to open.
MaxLoadFiles == 3

LoadFiles ==
    { BackupName(F_daily, t) : t \in 0..2 }
    \cup { BackupName(<< "a", "-" >>, 1),
           PlainName(F_daily, 0),
           S_backup \o << "x" >> }

LoadInit ==
    /\ res = "none"
    /\ \E dir \in SUBSET LoadFiles, dirExists \in BOOLEAN :
          /\ Cardinality(dir) <= MaxLoadFiles
          /\ ~dirExists => dir = {}
          /\ arg = [dirExists |-> dirExists]
          /\ AtRest(dir, << >>, "load")

\* load(), some of the archives failing to open.
Load ==
    /\ UNCHANGED << handlers, matchingFiles >>
    /\ pc = "load"
    /\ \E unopenable \in SUBSET EntryList(files, S_backup \o S_star_zip) :
          /\ calls' = load(files, arg.dirExists, unopenable)
          /\ res' = [unopenable |-> unopenable]
    /\ pc' = "loaded"
    /\ UNCHANGED << clock, files, marker, rules, lastCheck, stopThread, caller, ruleIdx,
                    nowSeconds, cycPre, cycFired, cycCreated, lockOpened, removedOk,
                    active, started, finalPersists, skipped, delFailed, arg, hist >>

SpecLoad == LoadInit /\ [][Load]_vars

(***************************************************************************)
(* Consolidator                                                            *)
(***************************************************************************)

\* QDir::tempPath() + "/" + fileName
ScratchPath(fileName) == << "/", "t", "m", "p", "/" >> \o fileName

\* A consolidate() that goes on to the handlers when the copy does not open.
consolidate_IgnoresOpenFailure(dir, dirExists, temp, fileName, ioOk, openOk) ==
    LET copySuccess == dirExists /\ fileName \in dir /\ fileName \notin temp /\ ioOk
    IN  [copySuccess |-> copySuccess,
         opened      |-> copySuccess /\ openOk,
         temp        |-> IF copySuccess THEN temp \cup {fileName} ELSE temp,
         calls       |-> IF copySuccess
                         THEN HandlerCalls("consolidateBackup", ScratchPath(fileName))
                         ELSE << >>]

\* consolidate(fileName) on the backup directory `dir` and the scratch
\* directory `temp`: QFile::copy fails if the directory or the file is
\* missing, if the scratch directory already holds a file of that name, or
\* for a reason of its own (~ioOk); the copy opens as a zip archive or not
\* (openOk).  The result is what the scratch directory holds afterwards and
\* the handler invocations made.
consolidate(dir, dirExists, temp, fileName, ioOk, openOk) ==
    LET copySuccess == dirExists /\ fileName \in dir /\ fileName \notin temp /\ ioOk
    IN  [copySuccess |-> copySuccess,
         opened      |-> copySuccess /\ openOk,
         temp        |-> IF copySuccess THEN temp \cup {fileName} ELSE temp,
         calls       |-> IF copySuccess /\ openOk
                         THEN HandlerCalls("consolidateBackup", ScratchPath(fileName))
                         ELSE << >>]

\* The archive names consolidate() is asked for: files of the directories the
\* manager is constructed on, present or not.
ConsolidateNames ==
    { BackupName(F_daily, 0), BackupName(F_daily, 1), BackupName(F_daily, 2),
      BackupName(<< "a", "-" >>, 1), BackupName(<< "b", "-" >>, 0),
      PlainName(F_daily, 0) }

\* A constructed manager, its backup directory present or (emptied and)
\* removed since, and an empty scratch directory.
ConsolidateInit ==
    /\ \E dir \in InitDirs, settings \in RuleSettings, dirExists \in BOOLEAN :
          \E order \in DirOrders(dir) :
              /\ AtRest(IF dirExists THEN dir ELSE {}, parseSettings(settings, order),
                        "consolidate")
              /\ arg = [dirExists |-> dirExists,
                        dir       |-> files,
                        rules     |-> rules]
    /\ res = [fileName |-> << >>, copySuccess |-> FALSE, opened |-> FALSE, temp |-> {}]

\* consolidate(fileName). A registration made before or after it is the step
\* AddBackupHandler, and so is one made during its pass over _backupHandlers
\* that the pass survives. A registration made during the pass reallocates
\* _backupHandlers under the pass's iterator, which is undefined behaviour:
\* the process may die on the next handler it reads, after any number of calls
\* short of the whole pass, the copy left in the scratch directory.
Consolidate ==
    /\ pc = "consolidate"
    /\ \E fileName \in ConsolidateNames, ioOk \in BOOLEAN, openOk \in BOOLEAN :
          LET r == consolidate(files, arg.dirExists, res.temp, fileName, ioOk, openOk)
          IN  /\ res' = [fileName |-> fileName, copySuccess |-> r.copySuccess,
                         opened |-> r.opened, temp |-> r.temp]
              /\ \/ /\ calls' = r.calls
                    /\ UNCHANGED << pc, handlers >>
                 \/ /\ r.calls # << >>
                    /\ handlers < MaxHandlers
                    /\ \E made \in 0..(Len(r.calls) - 1) : calls' = SubSeq(r.calls, 1, made)
                    /\ handlers' = handlers + 1
                    /\ pc' = "dead"
    /\ UNCHANGED << clock, files, marker, rules, lastCheck, stopThread, caller,
                    ruleIdx, nowSeconds, cycPre, cycFired, cycCreated, lockOpened,
                    removedOk, active, started, finalPersists, skipped, delFailed,
                    arg, hist, matchingFiles >>

\* consolidate() is called on demand, any number of times, on a manager whose
\* handlers may be registered meanwhile.
NextConsolidate ==
    \/ Consolidate
    \/ AddBackupHandler

SpecConsolidate == ConsolidateInit /\ [][NextConsolidate]_vars

(***************************************************************************)
(* Properties                                                              *)
(***************************************************************************)

\* The rules the loop of the cycle underway (or of the last cycle) has passed.
Processed == IF cycPre = << >> THEN {} ELSE 1..(ruleIdx - 1)

\* The createBackup invocations logged for the archive name `file`.
CreateCallsFor(file) ==
    SelectSeq(calls, LAMBDA c : c.op = "createBackup" /\ c.file = file)

\* C1: in every backup cycle a rule fires (its handlers' createBackup run, and
\* an archive is named for it) iff now - lastBackupSeconds > intervalSeconds,
\* now being the second the cycle began in; a rule that fires has its
\* lastBackupSeconds set to exactly now, and one that does not fire, or has
\* not been reached yet, keeps the value it had when the cycle began.  The
\* handlers' calls are counted in a process that has not died of a handler
\* registered during a pass over the handlers.
C1_FiresIffDue ==
    /\ \A i \in Processed :
          /\ (i \in cycFired) <=> (nowSeconds - cycPre[i] > rules[i].intervalSeconds)
          /\ i \in cycFired => rules[i].lastBackupSeconds = nowSeconds
          /\ i \notin cycFired =>
                /\ rules[i].lastBackupSeconds = cycPre[i]
                /\ cycCreated[i] = << >>
    /\ cycPre # << >> =>
          \A i \in (1..Len(rules)) \ Processed : rules[i].lastBackupSeconds = cycPre[i]
    /\ (cycPre # << >> /\ pc # "dead") =>
          /\ Cardinality({ k \in 1..Len(calls) : calls[k].handler = 1 }) = Cardinality(cycFired)
          /\ Len(calls) >= NumHandlers * Cardinality(cycFired)
          /\ Len(calls) <= handlers * Cardinality(cycFired)
          /\ \A k \in 1..Len(calls) : calls[k].op = "createBackup"
          /\ \A i \in cycFired :
                cycCreated[i] # << >> => Len(CreateCallsFor(cycCreated[i])) >= NumHandlers

\* C1 witness: a cycle that has passed two rules, the first due and fired with
\* its archive written, the second not due and left alone.
C1_Witness ==
    /\ pc = "backup"
    /\ Len(rules) = 2
    /\ ruleIdx = 3
    /\ cycFired = {1}
    /\ cycCreated[1] \in files
    /\ rules[1].lastBackupSeconds = nowSeconds
    /\ rules[2].lastBackupSeconds = cycPre[2]
    /\ nowSeconds - cycPre[2] = rules[2].intervalSeconds

\* The archives of rule i in the directory: the files named
\* "backup-" + filenamePrefix + timestamp + ".zip".
RuleArchives(i) ==
    { f \in files : FormatREMatch(S_backup \o rules[i].extensionFormat, f) }

\* A persist cycle has just ended (running.lock could be opened).
CycleEnded == pc \in {"run", "done"} /\ lockOpened /\ cycPre # << >>

\* C2 (as claimed): at the end of every cycle in which a rule with
\* maxVersions = N > 0 fired and no deletion failed, at most N archives of the
\* rule are in the directory.
C2_AtMostMaxVersions ==
    CycleEnded /\ ~delFailed =>
        \A i \in cycFired :
            rules[i].maxBackupVersions > 0 =>
                Cardinality(RuleArchives(i)) <= rules[i].maxBackupVersions

\* The timestamp embedded in an archive name: the characters before ".zip".
EmbeddedTimestamp(f) == SubSeq(f, Len(f) - Len(S_zip) - DATETIME_LEN + 1, Len(f) - Len(S_zip))

\* C3 (as claimed): the archive the executor has just created for a rule is
\* found by getMostRecentBackup called with the rule's filenamePrefix, and the
\* time it returns is the one written in the archive's name.
C3_CreatedArchiveIsFound ==
    pc = "backup" =>
        \A i \in cycFired :
            (i = ruleIdx - 1 /\ cycCreated[i] # << >>) =>
                LET r == getMostRecentBackup(SortByName(files), rules[i].extensionFormat)
                IN  /\ r.found
                    /\ r.time = ParseDateTime(EmbeddedTimestamp(cycCreated[i]))

\* A file name that starts with the rule's prefix and ends with ".zip",
\* letter case apart.
MatchesPrefix(format, f) ==
    /\ Len(f) >= Len(format) + Len(S_zip)
    /\ ToLower(SubSeq(f, 1, Len(format))) = ToLower(format)
    /\ ToLower(SubSeq(f, Len(f) - Len(S_zip) + 1, Len(f))) = S_zip

\* The files a retention run has deleted.
Deleted == arg.dir \ files

\* The files of the directory the run started on that match the rule's prefix.
Matching == { f \in arg.dir : MatchesPrefix(rules[1].extensionFormat, f) }

\* C4: one retention run with maxVersions = N > 0 on M files matching the
\* rule's prefix, all deletions succeeding, deletes exactly max(0, M - N) of
\* them, the first in ascending name order, and leaves the N last (all M when
\* M <= N); with maxVersions <= 0 it deletes nothing; a file that does not
\* match the prefix is never deleted.
C4_RetentionDeletesOldest ==
    pc = "retained" =>
        LET N == rules[1].maxBackupVersions
            M == Cardinality(Matching)
        IN  /\ files \subseteq arg.dir
            /\ Deleted \subseteq Matching
            /\ N <= 0 => Deleted = {}
            /\ (N > 0 /\ res.undeletable = {}) =>
                  /\ Cardinality(Deleted) = (IF M > N THEN M - N ELSE 0)
                  /\ Cardinality(Matching \ Deleted) = (IF M > N THEN N ELSE M)
                  /\ \A d \in Deleted : \A k \in Matching \ Deleted : NameLess(d, k)

\* C4 witness: a run with maxVersions = 2 on a directory with five matching
\* files and one that does not match has deleted the three oldest.
C4_Witness ==
    /\ pc = "retained"
    /\ rules[1].maxBackupVersions = 2
    /\ res.undeletable = {}
    /\ Cardinality(Matching) = 5
    /\ Cardinality(arg.dir) = 6
    /\ Cardinality(Deleted) = 3
    /\ PlainName(F_daily, 0) \in Deleted
    /\ PlainName(F_daily, 1) \in Deleted

\* The files whose whole name is format + timestamp + ".zip" with a timestamp
\* that parses.
Candidates(dir, format) ==
    { f \in dir : /\ FormatREMatch(format, f)
                  /\ ParseDateTime(FormatRECap(format, f)).valid }

\* The scanner returns the candidate with the greatest timestamp, and "no
\* archive found" when there is no candidate.
ScannerReturnsMaximum ==
    pc = "scanned" =>
        LET cands == Candidates(files, arg.format)
        IN  IF cands = {}
            THEN ~res.found
            ELSE /\ res.found
                 /\ res.file \in cands
                 /\ res.time = ParseDateTime(FormatRECap(arg.format, res.file))
                 /\ \A c \in cands :
                       ParseDateTime(FormatRECap(arg.format, c)).secs <= res.time.secs

\* The directory of the example: backup-daily-2024-01-01_00-00-00.zip and
\* backup-daily-2024-06-01_00-00-00.zip.
ExampleDir == { BackupName(F_daily, Jan2024), BackupName(F_daily, Jun2024) }

\* C5 (as claimed): the scanner returns the candidate with the greatest
\* timestamp, "no archive found" when there is none, and with prefix "daily-"
\* on the directory of the example it returns the June file.
C5_ScannerReturnsMostRecent ==
    /\ ScannerReturnsMaximum
    /\ (pc = "scanned" /\ files = ExampleDir /\ arg.format = F_daily) =>
          /\ res.found
          /\ res.file = BackupName(F_daily, Jun2024)

\* The scanner has picked the June file out of three candidates.
ScannerWitness ==
    /\ pc = "scanned"
    /\ Cardinality(Candidates(files, arg.format)) = 3
    /\ res.found
    /\ res.file = PlainName(F_daily, Jun2024)

\* C6: running.lock exists during the whole run of backup(); every firing,
\* handler call and deletion of a cycle happens while it exists; it is created
\* when the cycle enters backup() and removed only after backup() has
\* returned; and while no cycle is underway, if the last removal succeeded,
\* it does not exist.  A process that dies within backup() never returns from
\* it, and leaves running.lock behind.
C6_MarkerLifecycle ==
    /\ [](/\ (pc = "backup" \/ (pc = "dead" /\ active = 1)) => marker
          /\ (pc # "backup" /\ ~(pc = "dead" /\ active = 1) /\ removedOk) => ~marker)
    /\ [][/\ (rules' # rules \/ files' # files \/ cycFired' \ cycFired # {}
                \/ (Len(calls') > Len(calls)
                    /\ calls'[Len(calls')].op = "createBackup")) =>
                (marker /\ marker' /\ pc = "backup")
          /\ (pc # "backup" /\ pc' = "backup") => (marker' /\ cycFired' = {} /\ ruleIdx' = 1)
          /\ (marker /\ ~marker') =>
                (pc = "backup" /\ ruleIdx > Len(rules) /\ pc' # "backup" /\ removedOk')
          /\ (pc = "backup" /\ pc' \notin {"backup", "dead"} /\ removedOk') => ~marker'
         ]_vars

\* C6 witness: a cycle in which a rule fired and a file was deleted has ended
\* and running.lock is gone.
C6_Witness ==
    /\ pc = "run"
    /\ lockOpened
    /\ removedOk
    /\ ~marker
    /\ cycFired # {}
    /\ PlainName(F_daily, 0) \notin files
    /\ PlainName(F_daily, 1) \in files

\* C7: a persist() that cannot open running.lock skips the cycle: no rule
\* fires, no handler is called, no file is created or deleted, every
\* lastBackupSeconds keeps its value, and the worker goes on (backup() runs
\* only under an opened running.lock).
C7_SkippedCycle ==
    /\ [](pc = "backup" => lockOpened)
    /\ [][(pc = "persist" /\ pc' # "persist" /\ ~lockOpened') =>
             /\ UNCHANGED << files, rules, calls, marker, cycFired, cycCreated >>
             /\ pc' = ReturnTo(caller)
             /\ caller = "process" => pc' = "run"
         ]_vars

\* C7 witness: after a skipped cycle, a later cycle is under way and a rule has
\* fired in it.
C7_Witness ==
    /\ skipped >= 1
    /\ pc = "backup"
    /\ caller = "process"
    /\ cycFired # {}
    /\ \E i \in cycFired : cycCreated[i] \in files

\* C8: when the worker has terminated, aboutToFinish() has run persist()
\* exactly once, whatever the time since the last check, and if running.lock
\* could be opened every rule that was due when that cycle began has fired in
\* it.
C8_FinalPersist ==
    /\ finalPersists <= 1
    /\ finalPersists = 1 => stopThread
    /\ pc = "done" =>
          /\ finalPersists = 1
          /\ lockOpened =>
                /\ ruleIdx = Len(rules) + 1
                /\ \A i \in 1..Len(rules) :
                      nowSeconds - cycPre[i] > rules[i].intervalSeconds =>
                          /\ i \in cycFired
                          /\ rules[i].lastBackupSeconds = nowSeconds

\* C8 witness: the worker has terminated, its last cycle began before the
\* check interval had passed, and a rule fired in it.
C8_Witness ==
    /\ pc = "done"
    /\ lockOpened
    /\ cycFired # {}
    /\ ~CheckIsDue(nowSeconds * USECS_PER_SECOND, lastCheck)
    /\ nowSeconds * USECS_PER_SECOND >= lastCheck

\* load() has run and no persist cycle has touched the log of calls yet.
Loaded == pc \notin {"setup", "load", "dead"} /\ started = 0

\* The time written in an archive name.
ArchiveTime(f) == ParseDateTime(EmbeddedTimestamp(f)).secs

\* C9 (as claimed): load() calls the handlers on the archives from oldest to
\* newest: every loadBackup on an archive with an earlier timestamp comes
\* before any loadBackup on one with a later timestamp.
C9_LoadOldestFirst ==
    Loaded =>
        \A p, q \in 1..Len(calls) :
            ArchiveTime(calls[p].file) < ArchiveTime(calls[q].file) => p < q

\* C10: at most one persist cycle is underway at any time; a persist() is
\* entered only by a worker that is in no cycle (out of process() after its
\* sleep, or out of aboutToFinish()); a cycle under way goes on until its loop has
\* passed every rule, unless the process dies in it; and the rules and
\* running.lock change only within the one cycle under way.
C10_NoOverlap ==
    /\ [](/\ active <= 1
          /\ pc = "backup" => active = 1
          /\ active = 1 => pc \in {"backup", "dead"})
    /\ [][/\ started' # started =>
                (pc \in {"run", "sleep"} /\ active = 0 /\ pc' = "persist")
          /\ pc = "backup" =>
                \/ pc' = "backup"
                \/ (ruleIdx > Len(rules) /\ pc' = ReturnTo(caller) /\ active' = 0)
                \/ pc' = "dead"
          /\ (rules' # rules \/ marker' # marker) => (active = 1 \/ active' = 1)
         ]_vars

\* C10 witness: the cycle forced by aboutToFinish() is under way, after a
\* scheduled cycle that ran to its end, and a rule has fired in it.
C10_Witness ==
    /\ pc = "backup"
    /\ caller = "aboutToFinish"
    /\ started >= 2
    /\ skipped = 0
    /\ cycFired # {}

\* The check interval in microseconds.
IntervalToCheck == PersistInterval * MSECS_TO_USECS

\* C11: process() goes to sleep only when entered while the manager is still
\* running; the tick after the sleep reads the clock and invokes persist() if
\* and only if the time since the last check is
\* strictly greater than the check interval, and exactly then the last check
\* becomes the time of the tick.  So the last check only changes at a tick that
\* starts a scheduled cycle, each time by more than one check interval, and
\* the first scheduled cycle starts more than one check interval after the
\* construction.
C11_SchedulerGate ==
    /\ [](lastCheck = StartClock \/ lastCheck - StartClock > IntervalToCheck)
    /\ [][/\ (pc' = "sleep" /\ pc # "sleep") => (pc = "run" /\ ~stopThread)
          /\ hist'.tickNow # hist.tickNow =>
                /\ pc = "sleep"
                /\ hist'.tickNow = clock'
                /\ (started' = started + 1 /\ pc' = "persist" /\ caller' = "process")
                      <=> (clock' - lastCheck > IntervalToCheck)
                /\ (lastCheck' = clock') <=> (clock' - lastCheck > IntervalToCheck)
                /\ lastCheck' # clock' => (lastCheck' = lastCheck /\ started' = started)
          /\ lastCheck' # lastCheck =>
                /\ hist'.tickNow # hist.tickNow
                /\ lastCheck' - lastCheck > IntervalToCheck
          /\ (started' # started /\ caller' = "process") => lastCheck' = clock'
         ]_vars

\* C11 witness: the second scheduled cycle has just been started by a tick.
C11_Witness ==
    /\ pc = "persist"
    /\ caller = "process"
    /\ started >= 2
    /\ lastCheck = hist.tickNow
    /\ lastCheck - StartClock > 2 * IntervalToCheck

\* C12: the loop of backup() passes every rule once, in list order, against
\* the one nowSeconds read at the start of the cycle, and a cycle ends only
\* after the last rule (or with the process).  A step of the loop changes no rule but its own, and
\* its rule fires iff nowSeconds - lastBackupSeconds > intervalSeconds for the
\* rule's own values, whatever happened to the rules before it: a skip, an
\* archive that did not open or a deletion that failed.
C12_RulesIndependent ==
    [][/\ (pc # "backup" /\ pc' = "backup") => (ruleIdx' = 1 /\ cycFired' = {})
       /\ (pc = "backup" /\ pc' \notin {"backup", "dead"}) => ruleIdx = Len(rules) + 1
       /\ (pc = "backup" /\ pc' = "backup") =>
             /\ nowSeconds' = nowSeconds
             /\ ruleIdx' \in {ruleIdx, ruleIdx + 1}
             /\ ruleIdx' = ruleIdx => (rules' = rules /\ cycFired' = cycFired)
             /\ ruleIdx' = ruleIdx + 1 =>
                   /\ ruleIdx <= Len(rules)
                   /\ \A j \in (1..Len(rules)) \ {ruleIdx} : rules'[j] = rules[j]
                   /\ rules[ruleIdx].lastBackupSeconds = cycPre[ruleIdx]
                   /\ cycFired' \ cycFired \subseteq {ruleIdx}
                   /\ (ruleIdx \in cycFired') <=>
                         (nowSeconds - rules[ruleIdx].lastBackupSeconds
                             > rules[ruleIdx].intervalSeconds)
      ]_vars

\* C12 witness: in one cycle the first rule fired, its archive did not open
\* and a deletion of its retention failed, and the second rule has fired and
\* written its archive.
C12_Witness ==
    /\ pc = "backup"
    /\ cycFired = {1, 2}
    /\ cycCreated[1] = << >>
    /\ delFailed
    /\ cycCreated[2] \in files

\* A cycle in which the first rule was skipped and the second has fired.
C12_SkipThenFire ==
    /\ pc = "backup"
    /\ cycFired = {2}
    /\ ruleIdx = 3

\* C13: when a due rule's archive cannot be opened, the firing still calls
\* every handler's createBackup once, in registration order, still sets the
\* rule's lastBackupSeconds to nowSeconds (so that the rule is due again only
\* after its interval) and still runs the retention of the rule.
C13_OpenFailureStillFires ==
    [][(/\ pc = "backup"
        /\ ruleIdx' = ruleIdx + 1
        /\ nowSeconds - rules[ruleIdx].lastBackupSeconds > rules[ruleIdx].intervalSeconds
        /\ cycCreated'[ruleIdx] = << >>) =>
            /\ ruleIdx \in cycFired'
            /\ Len(calls') = Len(calls) + handlers
            /\ handlers >= NumHandlers
            /\ \A h \in 1..handlers :
                  /\ calls'[Len(calls) + h].op = "createBackup"
                  /\ calls'[Len(calls) + h].handler = h
                  /\ calls'[Len(calls) + h].file =
                        ArchiveFileName(rules[ruleIdx], FormatDateTime(ClockSeconds(clock)))
            /\ rules'[ruleIdx].lastBackupSeconds = nowSeconds
            /\ ~(nowSeconds - rules'[ruleIdx].lastBackupSeconds
                    > rules'[ruleIdx].intervalSeconds) \/ rules[ruleIdx].intervalSeconds < 0
            /\ IF delFailed'
               THEN files' \subseteq files
               ELSE files' = removeOldBackupVersions(files, TRUE, rules[ruleIdx], {})
      ]_vars

\* C13 witness: rule Daily fired on a directory holding daily-<0> and
\* daily-<1>, its archive did not open, the handlers were called and its
\* retention has deleted daily-<0>.
C13_Witness ==
    /\ pc = "backup"
    /\ 1 \in cycFired
    /\ cycCreated[1] = << >>
    /\ rules[1].extensionFormat = F_daily
    /\ rules[1].lastBackupSeconds = nowSeconds
    /\ Len(calls) >= NumHandlers
    /\ PlainName(F_daily, 1) \in files
    /\ PlainName(F_daily, 0) \notin files

\* C14: the lastBackupSeconds of a rule with intervalSeconds >= 0 never
\* decreases, whatever the clock reads: it changes only when the rule fires,
\* to a nowSeconds that is greater, and a rule whose stored value is ahead of
\* the clock is left alone.
C14_LastBackupMovesForward ==
    [][\A i \in 1..Len(rules) :
          rules[i].intervalSeconds >= 0 =>
              /\ rules'[i].lastBackupSeconds >= rules[i].lastBackupSeconds
              /\ rules'[i].lastBackupSeconds # rules[i].lastBackupSeconds =>
                    /\ pc = "backup" /\ ruleIdx = i
                    /\ rules'[i].lastBackupSeconds = nowSeconds
      ]_vars

\* C14 witness: at the end of a cycle the first rule, seeded from an archive
\* whose timestamp is ahead of the clock, has been passed and left alone, and
\* the second rule has fired and moved forward.
C14_Witness ==
    /\ pc = "backup"
    /\ ruleIdx > Len(rules)
    /\ cycPre[1] = FutureSeconds
    /\ nowSeconds < cycPre[1]
    /\ rules[1].lastBackupSeconds = FutureSeconds
    /\ 2 \in cycFired
    /\ rules[2].lastBackupSeconds > cycPre[2]

\* The files load() lists: those of an existing directory that match backup-*.zip.
LoadListed ==
    IF arg.dirExists THEN { f \in files : WildcardMatch(S_backup \o S_star_zip, f) } ELSE {}

\* C15: after load(), every listed archive that opened has had every handler's
\* loadBackup called on it exactly once, the handlers in registration order
\* and one archive after the other; no handler was called on an archive that
\* did not open, and the archives after it were still loaded; on an empty or
\* missing directory no handler is called at all.
C15_LoadFanOut ==
    pc = "loaded" =>
        LET opened == LoadListed \ res.unopenable
        IN  /\ Len(calls) = handlers * Cardinality(opened)
            /\ \A k \in 1..Len(calls) :
                  /\ calls[k].op = "loadBackup"
                  /\ calls[k].file \in opened
                  /\ calls[k].handler = ((k - 1) % handlers) + 1
                  /\ calls[k].file = calls[k - ((k - 1) % handlers)].file
            /\ \A f \in opened :
                  Cardinality({ k \in 1..Len(calls) : calls[k].file = f }) = handlers
            /\ (files = {} \/ ~arg.dirExists) => calls = << >>

\* C15 witness: one archive did not open and an archive listed after it was
\* loaded by every handler.
C15_Witness ==
    /\ pc = "loaded"
    /\ \E f \in res.unopenable, g \in LoadListed \ res.unopenable :
          /\ NameLess(f, g)
          /\ \E k \in 1..Len(calls) : calls[k].file = g /\ calls[k].handler = handlers

\* The seed of a rule: the greatest timestamp, in seconds since the epoch,
\* among the files of the directory the scanner takes for the format; 0 if
\* there is none.
SeedFor(dir, format) ==
    LET times == { ParseDateTime(FormatRECap(format, f)).secs : f \in Candidates(dir, format) }
    IN  IF times = {} THEN 0 ELSE CHOOSE t \in times : \A u \in times : u <= t

\* The number of persist cycles that have run backup() so far.
CyclesRun == started - skipped - (IF pc = "persist" THEN 1 ELSE 0)

\* C16: until the first cycle runs, every rule's lastBackupSeconds is the
\* timestamp of the most recent archive the scanner finds for the rule's
\* format in the directory, 0 if it finds none; and in the first cycle that
\* runs, every rule seeded with 0 whose intervalSeconds is smaller than the
\* cycle's nowSeconds fires.
C16_Seeding ==
    /\ CyclesRun = 0 =>
          \A i \in 1..Len(rules) :
              rules[i].lastBackupSeconds = SeedFor(files, rules[i].extensionFormat)
    /\ CyclesRun = 1 =>
          \A i \in Processed :
              (cycPre[i] = 0 /\ rules[i].intervalSeconds < nowSeconds) =>
                  (i \in cycFired /\ rules[i].lastBackupSeconds = nowSeconds)

\* C16 witness: the first cycle that runs comes after a skipped one, and in
\* it a rule seeded with 0 on a directory that holds archives has fired.
C16_Witness ==
    /\ pc = "backup"
    /\ CyclesRun = 1
    /\ skipped >= 1
    /\ 1 \in cycFired
    /\ cycPre[1] = 0
    /\ BackupName(F_daily, 1) \in files

\* C17: a consolidate() calls no handler if the copy to the scratch directory
\* failed or the copy did not open; if both succeeded it calls the
\* consolidateBackup of every handler registered when it runs exactly once, in
\* registration order, on the scratch copy; and in every case the backup
\* directory and the rules are as they were.  The process dies in a
\* consolidate() only inside its pass over the handlers, of a handler
\* registered during the pass: the copy has opened and the calls made are the
\* first ones of the pass, fewer than the handlers it began with.
C17_ConsolidateAborts ==
    /\ [](pc \in {"consolidate", "dead"} =>
             /\ ~(res.copySuccess /\ res.opened) => calls = << >>
             /\ res.copySuccess => (res.fileName \in files /\ res.fileName \in res.temp)
             /\ \A k \in 1..Len(calls) :
                   /\ calls[k] = [op      |-> "consolidateBackup",
                                  handler |-> k,
                                  file    |-> ScratchPath(res.fileName)]
                   /\ calls[k].file \notin files
             /\ files = arg.dir
             /\ rules = arg.rules)
    /\ [][/\ (pc = "consolidate" /\ pc' = "consolidate" /\ handlers' = handlers) =>
                /\ (res'.copySuccess /\ res'.opened) => Len(calls') = handlers
                /\ handlers >= NumHandlers
          /\ (pc = "consolidate" /\ pc' = "consolidate" /\ handlers' # handlers) =>
                (calls' = calls /\ res' = res)
          /\ (pc = "consolidate" /\ pc' # "consolidate") =>
                /\ pc' = "dead"
                /\ res'.copySuccess /\ res'.opened
                /\ handlers' = handlers + 1
                /\ Len(calls') < handlers
         ]_vars

\* C17 witness: the archive was copied, the copy did not open, and no
\* handler was called.
C17_Witness ==
    /\ pc = "consolidate"
    /\ res.fileName \in files
    /\ res.copySuccess
    /\ ~res.opened
    /\ calls = << >>
    /\ Len(rules) = 2

\* A consolidate() that ran through: every handler was called on the copy,
\* one registered after an earlier consolidate() included.
C17_RanThrough ==
    /\ pc = "consolidate"
    /\ res.copySuccess /\ res.opened
    /\ handlers > NumHandlers
    /\ Len(calls) = handlers

\* A consolidate() in which the process died after the first handler's call.
C17_DiedInPass ==
    /\ pc = "dead"
    /\ res.copySuccess /\ res.opened
    /\ handlers = NumHandlers + 1
    /\ Len(calls) = 1

\* C18 (as claimed): a rule that has fired at time t, and whose archive of
\* that firing is in the directory, is seeded with a lastBackupSeconds of at
\* least t when the process is restarted on the same settings and directory;
\* and such a rule does not fire in a cycle whose nowSeconds is within
\* intervalSeconds of t, before or after a restart.
C18_NoEarlyBackupAfterRestart ==
    [][/\ (pc = "done" /\ pc' = "setup") =>
             \A i \in DOMAIN hist.firedAt :
                 hist.firedAt[i].file \in files =>
                     rules'[i].lastBackupSeconds >= hist.firedAt[i].at
       /\ (pc = "backup" /\ ruleIdx \in (cycFired' \ cycFired)
                         /\ ruleIdx \in DOMAIN hist.firedAt
                         /\ hist.firedAt[ruleIdx].file \in files) =>
             nowSeconds - hist.firedAt[ruleIdx].at > rules[ruleIdx].intervalSeconds
      ]_vars

\* The second half of C18 alone: a rule whose latest archive is in the
\* directory does not fire within intervalSeconds of that firing.
C18_NoEarlyFiring ==
    [][(pc = "backup" /\ ruleIdx \in (cycFired' \ cycFired)
                      /\ ruleIdx \in DOMAIN hist.firedAt
                      /\ hist.firedAt[ruleIdx].file \in files) =>
            nowSeconds - hist.firedAt[ruleIdx].at > rules[ruleIdx].intervalSeconds
      ]_vars

\* C19 (as claimed): the retention run for a rule never deletes an archive
\* that a firing of another rule has written.
C19_RetentionScopedToRule ==
    [][pc = "backup" =>
          \A f \in files \ files' :
              \A n \in hist.namesUsed : n[2] = f => n[1] = ruleIdx
      ]_vars

\* C20 (as claimed): a firing of a rule never builds an archive name that an
\* earlier firing of the same rule has built.
C20_NewArchiveName ==
    [][(pc = "backup" /\ ruleIdx \in (cycFired' \ cycFired)) =>
            << ruleIdx,
               ArchiveFileName(rules[ruleIdx], FormatDateTime(ClockSeconds(clock))) >>
                \notin hist.namesUsed
      ]_vars

====
